---- MODULE Spec2Model ----
(***************************************************************************)
(* Model of src/LockFreeQueue.h: the single-producer/single-consumer       *)
(* queues LockFreeQueue<T,size> (ring buffer) and                          *)
(* UnboundedLockFreeQueue<T,size> (chain of ring-buffer blocks).           *)
(*                                                                         *)
(* Three specifications share the variables:                               *)
(*   SpecB   one producer and one consumer thread on a LockFreeQueue, one  *)
(*           action per atomic load/store/slot access;                     *)
(*   SpecU   the same for UnboundedLockFreeQueue, plus the destructor;     *)
(*   SpecSeq one thread calling push/pop of either queue, one action per   *)
(*           call.                                                         *)
(***************************************************************************)
EXTENDS Integers, Sequences, FiniteSets, TLC

\* ---- bounds ----
\* largest template parameter `size` instantiated (usable slots per ring)
MaxSize == 3
\* number of distinct element values offered to LockFreeQueue::push
NumVals == 2
\* total number of successful pushes in a run (K of the stress test)
MaxPush == 5
MaxThreads == 2

\* ---- program constants ----
\* nullptr
NULL == 0
\* content of a slot of T data[size + 1] that was never assigned
NoVal == 0

Vals == 1..NumVals

VARIABLES
    kind,      \* which class is instantiated: "B" LockFreeQueue, "U" UnboundedLockFreeQueue
    capacity,  \* the member capacity of the queue under test
    reader,    \* LockFreeQueue::reader
    writer,    \* LockFreeQueue::writer
    data,      \* LockFreeQueue::data, indexed 0..size
    blocks,    \* heap: sequence of MemoryBlock, index = address, in allocation order
    delcnt,    \* per block: how many times delete was applied to it
    head,      \* UnboundedLockFreeQueue::head
    tail,      \* UnboundedLockFreeQueue::tail
    stop,      \* UnboundedLockFreeQueue::stop
    prod,      \* producer thread: position in push and its locals
    cons,      \* consumer thread: position in pop and its locals
    dtor,      \* thread running ~UnboundedLockFreeQueue: position and locals
    out,       \* the caller's variable bound to pop's T& elem
    uaf,       \* history: some thread accessed a field of a deleted block
    pushed,    \* history: values whose push returned true, in order
    popped,    \* history: values returned by successful pops, in order
    ref,       \* history (SpecSeq, LockFreeQueue): reference FIFO
    streak,    \* history (SpecSeq, LockFreeQueue): successful pushes since construction or the last pop call
    phase,     \* history (SpecSeq): "push" until the first pop call, then "pop", "mixed" once a push follows a pop
    last,      \* history (SpecSeq): the last completed call [op, arg, ret] and the reference FIFO's answer to it
    mq,        \* MutexedQueue: reader, writer, data, lock (the thread holding it, 0 if free)
    thr        \* per thread calling MutexedQueue: position in push or pop and its locals

vars == <<kind, capacity, reader, writer, data, blocks, delcnt, head, tail, stop,
          prod, cons, dtor, out, uaf, pushed, popped, ref, streak, phase, last,
          mq, thr>>

\* the template parameter size, as fixed by capacity(size + 1) in every constructor
size == capacity - 1

\* MemoryBlock() : reader(0), writer(0), next_block(nullptr)
MemoryBlock == [reader |-> 0, writer |-> 0, next_block |-> NULL,
                data |-> [i \in 0..size |-> NoVal]]

\* thread locals while no call is in progress.  seen is history: the number
\* of pushes that had returned true when the pop in progress was called.
ProdIdle(r) == [pc |-> "idle", elem |-> NoVal, wr_pos |-> 0, next_pos |-> 0,
                current_tail |-> NULL, next_block |-> NULL, ret |-> r, threw |-> FALSE]
\* the producer after an exception has left its push call
ProdThrew == [ProdIdle(FALSE) EXCEPT !.threw = TRUE]
ConsIdle(r) == [pc |-> "idle", rd_pos |-> 0, current_head |-> NULL,
                next_block |-> NULL, ret |-> r, seen |-> 0]
DtorNone == [pc |-> "none", current_head |-> NULL, next_block |-> NULL]
NoCall == [op |-> "none", arg |-> NoVal, ret |-> FALSE, refret |-> FALSE, refout |-> NoVal,
           rt |-> 0]

\* no MutexedQueue is instantiated
NoQueue == [reader |-> 0, writer |-> 0, data |-> <<>>, lock |-> 0, issued |-> 0]

\* state shared by every Init: nothing constructed, no call made
InitCommon ==
    /\ prod = ProdIdle(FALSE)
    /\ cons = ConsIdle(FALSE)
    /\ dtor = DtorNone
    /\ out = NoVal
    /\ uaf = FALSE
    /\ pushed = <<>>
    /\ popped = <<>>
    /\ ref = <<>>
    /\ streak = 0
    /\ phase = "push"
    /\ last = NoCall
    /\ mq = NoQueue
    /\ thr = <<>>

\* LockFreeQueue() : reader(0), writer(0), capacity(size + 1)
LockFreeQueue ==
    /\ kind = "B"
    /\ capacity \in {sz + 1 : sz \in 1..MaxSize}
    /\ reader = 0
    /\ writer = 0
    /\ data = [i \in 0..size |-> NoVal]
    /\ blocks = <<>>
    /\ delcnt = <<>>
    /\ head = NULL
    /\ tail = NULL
    /\ stop = FALSE

\* UnboundedLockFreeQueue() : capacity(size + 1), stop(false) { head = tail = new MemoryBlock(); }
UnboundedLockFreeQueue ==
    /\ kind = "U"
    /\ capacity \in {sz + 1 : sz \in 1..MaxSize}
    /\ reader = 0
    /\ writer = 0
    /\ data = [i \in 0..size |-> NoVal]
    /\ blocks = <<MemoryBlock>>
    /\ delcnt = <<0>>
    /\ head = 1
    /\ tail = 1
    /\ stop = FALSE

UVars == <<blocks, delcnt, head, tail, stop, dtor, uaf>>
BVars == <<reader, writer, data>>
SeqVars == <<ref, streak, phase, last>>

(***************************************************************************)
(* LockFreeQueue, one action per memory access of push and pop.            *)
(***************************************************************************)

\* push line 23-24: wr_pos = writer.load(relaxed); next_pos = (wr_pos + 1) % capacity.
\* The producer offers 1, 2, ... in this order and offers a rejected value again.
LFQ_push_L23 ==
    /\ kind = "B"
    /\ prod.pc = "idle"
    /\ Len(pushed) < MaxPush
    /\ prod' = [prod EXCEPT !.pc = "L26", !.elem = Len(pushed) + 1, !.wr_pos = writer,
                            !.next_pos = (writer + 1) % capacity]
    /\ UNCHANGED <<mq, thr, kind, capacity, BVars, UVars, cons, out, pushed, popped, SeqVars>>

\* faulty variant of push line 26: the full test compares next_pos with the
\* writer index instead of the reader index, so the ring is never found full
LFQ_push_L26_WrongIndex ==
    /\ kind = "B"
    /\ prod.pc = "L26"
    /\ prod' = IF prod.next_pos = writer
                 THEN ProdIdle(FALSE)
                 ELSE [prod EXCEPT !.pc = "L29"]
    /\ UNCHANGED <<mq, thr, kind, capacity, BVars, UVars, cons, out, pushed, popped, SeqVars>>

\* faulty variant of push line 26: the test of pop is used, wr_pos is
\* compared with the reader index, so an empty ring rejects every push
LFQ_push_L26_EmptyTest ==
    /\ kind = "B"
    /\ prod.pc = "L26"
    /\ prod' = IF prod.wr_pos = reader
                 THEN ProdIdle(FALSE)
                 ELSE [prod EXCEPT !.pc = "L29"]
    /\ UNCHANGED <<mq, thr, kind, capacity, BVars, UVars, cons, out, pushed, popped, SeqVars>>

\* push line 26-27: if (next_pos == reader.load(acquire)) return false
LFQ_push_L26 ==
    /\ kind = "B"
    /\ prod.pc = "L26"
    /\ prod' = IF prod.next_pos = reader
                 THEN ProdIdle(FALSE)
                 ELSE [prod EXCEPT !.pc = "L29"]
    /\ UNCHANGED <<mq, thr, kind, capacity, BVars, UVars, cons, out, pushed, popped, SeqVars>>

\* push line 29: data[wr_pos] = elem
LFQ_push_L29 ==
    /\ kind = "B"
    /\ prod.pc = "L29"
    /\ data' = [data EXCEPT ![prod.wr_pos] = prod.elem]
    /\ prod' = [prod EXCEPT !.pc = "L30"]
    /\ UNCHANGED <<mq, thr, kind, capacity, reader, writer, UVars, cons, out, pushed, popped, SeqVars>>

\* push line 30-32: writer.store(next_pos, release); return true
LFQ_push_L30 ==
    /\ kind = "B"
    /\ prod.pc = "L30"
    /\ writer' = prod.next_pos
    /\ pushed' = Append(pushed, prod.elem)
    /\ prod' = ProdIdle(TRUE)
    /\ UNCHANGED <<mq, thr, kind, capacity, reader, data, UVars, cons, out, popped, SeqVars>>

\* pop line 37: rd_pos = reader.load(relaxed)
LFQ_pop_L37 ==
    /\ kind = "B"
    /\ cons.pc = "idle"
    /\ cons' = [cons EXCEPT !.pc = "L39", !.rd_pos = reader]
    /\ UNCHANGED <<mq, thr, kind, capacity, BVars, UVars, prod, out, pushed, popped, SeqVars>>

\* faulty variant of pop line 39: the test of push is used, the index after
\* rd_pos is compared with the writer index, so an empty ring is read
LFQ_pop_L39_NextPosTest ==
    /\ kind = "B"
    /\ cons.pc = "L39"
    /\ cons' = IF (cons.rd_pos + 1) % capacity = writer
                 THEN ConsIdle(FALSE)
                 ELSE [cons EXCEPT !.pc = "L42"]
    /\ UNCHANGED <<mq, thr, kind, capacity, BVars, UVars, prod, out, pushed, popped, SeqVars>>

\* pop line 39-40: if (rd_pos == writer.load(acquire)) return false
LFQ_pop_L39 ==
    /\ kind = "B"
    /\ cons.pc = "L39"
    /\ cons' = IF cons.rd_pos = writer
                 THEN ConsIdle(FALSE)
                 ELSE [cons EXCEPT !.pc = "L42"]
    /\ UNCHANGED <<mq, thr, kind, capacity, BVars, UVars, prod, out, pushed, popped, SeqVars>>

\* pop line 42: elem = data[rd_pos]
LFQ_pop_L42 ==
    /\ kind = "B"
    /\ cons.pc = "L42"
    /\ out' = data[cons.rd_pos]
    /\ cons' = [cons EXCEPT !.pc = "L45"]
    /\ UNCHANGED <<mq, thr, kind, capacity, BVars, UVars, prod, pushed, popped, SeqVars>>

\* faulty variant of pop line 43-45: the index wraps at size instead of capacity
LFQ_pop_L45_WrongModulus ==
    /\ kind = "B"
    /\ cons.pc = "L45"
    /\ reader' = (cons.rd_pos + 1) % size
    /\ popped' = Append(popped, out)
    /\ cons' = ConsIdle(TRUE)
    /\ UNCHANGED <<mq, thr, kind, capacity, writer, data, UVars, prod, out, pushed, SeqVars>>

\* pop line 43-47: reader.store((rd_pos + 1) % capacity, release); return true
LFQ_pop_L45 ==
    /\ kind = "B"
    /\ cons.pc = "L45"
    /\ reader' = (cons.rd_pos + 1) % capacity
    /\ popped' = Append(popped, out)
    /\ cons' = ConsIdle(TRUE)
    /\ UNCHANGED <<mq, thr, kind, capacity, writer, data, UVars, prod, out, pushed, SeqVars>>

InitB == LockFreeQueue /\ InitCommon

NextB ==
    \/ LFQ_push_L23
    \/ LFQ_push_L26
    \/ LFQ_push_L29
    \/ LFQ_push_L30
    \/ LFQ_pop_L37
    \/ LFQ_pop_L39
    \/ LFQ_pop_L42
    \/ LFQ_pop_L45

SpecB == InitB /\ [][NextB]_vars

\* the steps of the producer thread, which calls push again and again
ProducerB == LFQ_push_L23 \/ LFQ_push_L26 \/ LFQ_push_L29 \/ LFQ_push_L30

\* the steps of the consumer thread, which calls pop again and again
ConsumerB == LFQ_pop_L37 \/ LFQ_pop_L39 \/ LFQ_pop_L42 \/ LFQ_pop_L45

\* SpecB with both threads scheduled again and again (weak fairness): no
\* step of push or pop waits for a lock or for the other thread
SpecBFair == SpecB /\ WF_vars(ProducerB) /\ WF_vars(ConsumerB)

(***************************************************************************)
(* UnboundedLockFreeQueue, one action per memory access of push, pop and   *)
(* the destructor.  new returns the next unused address; a block keeps its *)
(* last contents after delete and every access to a field of a deleted     *)
(* block is recorded in uaf.                                               *)
(***************************************************************************)

\* the block at address b has been deleted
Dead(b) == delcnt[b] > 0

\* push line 96 (and 123): if (!stop.load(acquire)) {...} return false.
\* The producer of the stress test pushes 1, 2, ... in this order.
UQ_push_L96 ==
    /\ kind = "U"
    /\ prod.pc = "idle"
    /\ stop \/ Len(pushed) < MaxPush
    /\ prod' = IF stop
                 THEN ProdIdle(FALSE)
                 ELSE [prod EXCEPT !.pc = "L98", !.elem = Len(pushed) + 1]
    /\ UNCHANGED <<mq, thr, kind, capacity, BVars, UVars, cons, out, pushed, popped, SeqVars>>

\* push line 98-101: current_tail = tail; wr_pos = current_tail->writer.load(relaxed);
\* next_pos = (wr_pos + 1) % capacity
UQ_push_L98 ==
    /\ kind = "U"
    /\ prod.pc = "L98"
    /\ prod' = [prod EXCEPT !.pc = "L103", !.current_tail = tail,
                            !.wr_pos = blocks[tail].writer,
                            !.next_pos = (blocks[tail].writer + 1) % capacity]
    /\ uaf' = (uaf \/ Dead(tail))
    /\ UNCHANGED <<mq, thr, kind, capacity, BVars, blocks, delcnt, head, tail, stop, dtor, cons, out,
                   pushed, popped, SeqVars>>

\* push line 103: if (next_pos == current_tail->reader.load(acquire))
UQ_push_L103 ==
    /\ kind = "U"
    /\ prod.pc = "L103"
    /\ prod' = IF prod.next_pos = blocks[prod.current_tail].reader
                 THEN [prod EXCEPT !.pc = "L104"]
                 ELSE [prod EXCEPT !.pc = "L117"]
    /\ uaf' = (uaf \/ Dead(prod.current_tail))
    /\ UNCHANGED <<mq, thr, kind, capacity, BVars, blocks, delcnt, head, tail, stop, dtor, cons, out,
                   pushed, popped, SeqVars>>

\* push line 104-106: next_block = new MemoryBlock().  The allocation
\* succeeds or fails; a failing plain new-expression does not yield nullptr
\* but throws std::bad_alloc, which leaves push without a return value (the
\* test of line 105 is never true).
UQ_push_L104 ==
    /\ kind = "U"
    /\ prod.pc = "L104"
    /\ \E ok \in BOOLEAN :
          IF ok
            THEN /\ blocks' = Append(blocks, MemoryBlock)
                 /\ delcnt' = Append(delcnt, 0)
                 /\ prod' = [prod EXCEPT !.pc = "L108", !.next_block = Len(blocks) + 1]
            ELSE /\ UNCHANGED <<blocks, delcnt>>
                 /\ prod' = ProdThrew
    /\ UNCHANGED <<mq, thr, kind, capacity, BVars, head, tail, stop, dtor, uaf, cons, out,
                   pushed, popped, SeqVars>>

\* faulty variant of push line 108-109: the link is stored but current_tail
\* is not advanced, so push goes on using the block it has just handed over
UQ_push_L108_NoAdvance ==
    /\ kind = "U"
    /\ prod.pc = "L108"
    /\ blocks' = [blocks EXCEPT ![prod.current_tail].next_block = prod.next_block]
    /\ uaf' = (uaf \/ Dead(prod.current_tail))
    /\ prod' = [prod EXCEPT !.pc = "L110"]
    /\ UNCHANGED <<mq, thr, kind, capacity, BVars, delcnt, head, tail, stop, dtor, cons, out,
                   pushed, popped, SeqVars>>

\* push line 108-109: current_tail->next_block.store(next_block, release);
\* current_tail = next_block
UQ_push_L108 ==
    /\ kind = "U"
    /\ prod.pc = "L108"
    /\ blocks' = [blocks EXCEPT ![prod.current_tail].next_block = prod.next_block]
    /\ uaf' = (uaf \/ Dead(prod.current_tail))
    /\ prod' = [prod EXCEPT !.pc = "L110", !.current_tail = prod.next_block]
    /\ UNCHANGED <<mq, thr, kind, capacity, BVars, delcnt, head, tail, stop, dtor, cons, out,
                   pushed, popped, SeqVars>>

\* push line 110-113: tail = current_tail; wr_pos = 0; next_pos = (wr_pos + 1) % capacity
UQ_push_L110 ==
    /\ kind = "U"
    /\ prod.pc = "L110"
    /\ tail' = prod.current_tail
    /\ prod' = [prod EXCEPT !.pc = "L117", !.wr_pos = 0, !.next_pos = (0 + 1) % capacity]
    /\ UNCHANGED <<mq, thr, kind, capacity, BVars, blocks, delcnt, head, stop, dtor, uaf, cons, out,
                   pushed, popped, SeqVars>>

\* push line 117: current_tail->data[wr_pos] = elem
UQ_push_L117 ==
    /\ kind = "U"
    /\ prod.pc = "L117"
    /\ blocks' = [blocks EXCEPT ![prod.current_tail].data[prod.wr_pos] = prod.elem]
    /\ uaf' = (uaf \/ Dead(prod.current_tail))
    /\ prod' = [prod EXCEPT !.pc = "L118"]
    /\ UNCHANGED <<mq, thr, kind, capacity, BVars, delcnt, head, tail, stop, dtor, cons, out,
                   pushed, popped, SeqVars>>

\* push line 118-120: current_tail->writer.store(next_pos, release); return true
UQ_push_L118 ==
    /\ kind = "U"
    /\ prod.pc = "L118"
    /\ blocks' = [blocks EXCEPT ![prod.current_tail].writer = prod.next_pos]
    /\ uaf' = (uaf \/ Dead(prod.current_tail))
    /\ pushed' = Append(pushed, prod.elem)
    /\ prod' = ProdIdle(TRUE)
    /\ UNCHANGED <<mq, thr, kind, capacity, BVars, delcnt, head, tail, stop, dtor, cons, out,
                   popped, SeqVars>>

\* faulty variant of pop line 128: the stop flag is not tested
UQ_pop_L128_NoStopTest ==
    /\ kind = "U"
    /\ cons.pc = "idle"
    /\ cons' = [cons EXCEPT !.pc = "L130", !.seen = Len(pushed)]
    /\ UNCHANGED <<mq, thr, kind, capacity, BVars, UVars, prod, out, pushed, popped, SeqVars>>

\* pop line 128 (and 155): if (!stop.load(acquire)) {...} return false
UQ_pop_L128 ==
    /\ kind = "U"
    /\ cons.pc = "idle"
    /\ cons' = IF stop THEN ConsIdle(FALSE)
                       ELSE [cons EXCEPT !.pc = "L130", !.seen = Len(pushed)]
    /\ UNCHANGED <<mq, thr, kind, capacity, BVars, UVars, prod, out, pushed, popped, SeqVars>>

\* pop line 130-132: current_head = head; rd_pos = current_head->reader.load(relaxed)
UQ_pop_L130 ==
    /\ kind = "U"
    /\ cons.pc = "L130"
    /\ cons' = [cons EXCEPT !.pc = "L133", !.current_head = head,
                            !.rd_pos = blocks[head].reader]
    /\ uaf' = (uaf \/ Dead(head))
    /\ UNCHANGED <<mq, thr, kind, capacity, BVars, blocks, delcnt, head, tail, stop, dtor, prod, out,
                   pushed, popped, SeqVars>>

\* pop line 133: if (rd_pos == current_head->writer.load(acquire))
UQ_pop_L133 ==
    /\ kind = "U"
    /\ cons.pc = "L133"
    /\ cons' = IF cons.rd_pos = blocks[cons.current_head].writer
                 THEN [cons EXCEPT !.pc = "L135"]
                 ELSE [cons EXCEPT !.pc = "L149"]
    /\ uaf' = (uaf \/ Dead(cons.current_head))
    /\ UNCHANGED <<mq, thr, kind, capacity, BVars, blocks, delcnt, head, tail, stop, dtor, prod, out,
                   pushed, popped, SeqVars>>

\* pop line 135-137: next_block = current_head->next_block.load(acquire);
\* if (next_block == nullptr) return false
UQ_pop_L135 ==
    /\ kind = "U"
    /\ cons.pc = "L135"
    /\ cons' = IF blocks[cons.current_head].next_block = NULL
                 THEN ConsIdle(FALSE)
                 ELSE [cons EXCEPT !.pc = "L139",
                                   !.next_block = blocks[cons.current_head].next_block]
    /\ uaf' = (uaf \/ Dead(cons.current_head))
    /\ UNCHANGED <<mq, thr, kind, capacity, BVars, blocks, delcnt, head, tail, stop, dtor, prod, out,
                   pushed, popped, SeqVars>>

\* faulty variant of pop line 139: head is not advanced before the delete
UQ_pop_L139_NoAdvance ==
    /\ kind = "U"
    /\ cons.pc = "L139"
    /\ head' = head
    /\ cons' = [cons EXCEPT !.pc = "L140"]
    /\ UNCHANGED <<mq, thr, kind, capacity, BVars, blocks, delcnt, tail, stop, dtor, uaf, prod, out,
                   pushed, popped, SeqVars>>

\* pop line 139: head = next_block
UQ_pop_L139 ==
    /\ kind = "U"
    /\ cons.pc = "L139"
    /\ head' = cons.next_block
    /\ cons' = [cons EXCEPT !.pc = "L140"]
    /\ UNCHANGED <<mq, thr, kind, capacity, BVars, blocks, delcnt, tail, stop, dtor, uaf, prod, out,
                   pushed, popped, SeqVars>>

\* faulty variant of pop line 140-141: current_head is advanced before the
\* delete, which then frees the block pop goes on to read
UQ_pop_L140_DeleteAfterAdvance ==
    /\ kind = "U"
    /\ cons.pc = "L140"
    /\ delcnt' = [delcnt EXCEPT ![cons.next_block] = @ + 1]
    /\ cons' = [cons EXCEPT !.pc = "L144", !.current_head = cons.next_block,
                            !.rd_pos = 0]
    /\ UNCHANGED <<mq, thr, kind, capacity, BVars, blocks, head, tail, stop, dtor, uaf, prod, out,
                   pushed, popped, SeqVars>>

\* pop line 140-143: delete current_head; current_head = next_block; rd_pos = 0
UQ_pop_L140 ==
    /\ kind = "U"
    /\ cons.pc = "L140"
    /\ delcnt' = [delcnt EXCEPT ![cons.current_head] = @ + 1]
    /\ cons' = [cons EXCEPT !.pc = "L144", !.current_head = cons.next_block,
                            !.rd_pos = 0]
    /\ UNCHANGED <<mq, thr, kind, capacity, BVars, blocks, head, tail, stop, dtor, uaf, prod, out,
                   pushed, popped, SeqVars>>

\* faulty variant of pop line 144-145: on an empty new head block pop starts
\* over at line 130 instead of returning false
UQ_pop_L144_Retry ==
    /\ kind = "U"
    /\ cons.pc = "L144"
    /\ cons' = IF cons.rd_pos = blocks[cons.current_head].writer
                 THEN [cons EXCEPT !.pc = "L130"]
                 ELSE [cons EXCEPT !.pc = "L149"]
    /\ uaf' = (uaf \/ Dead(cons.current_head))
    /\ UNCHANGED <<mq, thr, kind, capacity, BVars, blocks, delcnt, head, tail, stop, dtor, prod, out,
                   pushed, popped, SeqVars>>

\* pop line 144-145: if (rd_pos == current_head->writer.load(acquire)) return false
UQ_pop_L144 ==
    /\ kind = "U"
    /\ cons.pc = "L144"
    /\ cons' = IF cons.rd_pos = blocks[cons.current_head].writer
                 THEN ConsIdle(FALSE)
                 ELSE [cons EXCEPT !.pc = "L149"]
    /\ uaf' = (uaf \/ Dead(cons.current_head))
    /\ UNCHANGED <<mq, thr, kind, capacity, BVars, blocks, delcnt, head, tail, stop, dtor, prod, out,
                   pushed, popped, SeqVars>>

\* pop line 149: elem = current_head->data[rd_pos]
UQ_pop_L149 ==
    /\ kind = "U"
    /\ cons.pc = "L149"
    /\ out' = blocks[cons.current_head].data[cons.rd_pos]
    /\ uaf' = (uaf \/ Dead(cons.current_head))
    /\ cons' = [cons EXCEPT !.pc = "L150"]
    /\ UNCHANGED <<mq, thr, kind, capacity, BVars, blocks, delcnt, head, tail, stop, dtor, prod,
                   pushed, popped, SeqVars>>

\* pop line 150-152: current_head->reader.store((rd_pos + 1) % capacity, release); return true
UQ_pop_L150 ==
    /\ kind = "U"
    /\ cons.pc = "L150"
    /\ blocks' = [blocks EXCEPT ![cons.current_head].reader = (cons.rd_pos + 1) % capacity]
    /\ uaf' = (uaf \/ Dead(cons.current_head))
    /\ popped' = Append(popped, out)
    /\ cons' = ConsIdle(TRUE)
    /\ UNCHANGED <<mq, thr, kind, capacity, BVars, delcnt, head, tail, stop, dtor, prod, out,
                   pushed, SeqVars>>

\* destructor line 77: stop.store(true, release).  The destructor runs once,
\* when no push and no pop is in progress.
UQ_dtor_L77 ==
    /\ kind = "U"
    /\ dtor.pc = "none"
    /\ prod.pc = "idle"
    /\ cons.pc = "idle"
    /\ stop' = TRUE
    /\ dtor' = [dtor EXCEPT !.pc = "L79"]
    /\ UNCHANGED <<mq, thr, kind, capacity, BVars, blocks, delcnt, head, tail, uaf, prod, cons, out,
                   pushed, popped, SeqVars>>

\* destructor line 79-81: current_head = head; next_block = current_head->next_block.load(acquire)
UQ_dtor_L79 ==
    /\ kind = "U"
    /\ dtor.pc = "L79"
    /\ dtor' = [dtor EXCEPT !.pc = "L81", !.current_head = head,
                            !.next_block = blocks[head].next_block]
    /\ uaf' = (uaf \/ Dead(head))
    /\ UNCHANGED <<mq, thr, kind, capacity, BVars, blocks, delcnt, head, tail, stop, prod, cons, out,
                   pushed, popped, SeqVars>>

\* faulty variant of the destructor's loop body: the visited block is
\* unlinked but not deleted
UQ_dtor_L83_NoDelete ==
    /\ kind = "U"
    /\ dtor.pc = "L81"
    /\ dtor.next_block # NULL
    /\ head' = dtor.next_block
    /\ blocks' = [blocks EXCEPT ![dtor.current_head].next_block = NULL]
    /\ delcnt' = delcnt
    /\ uaf' = (uaf \/ Dead(dtor.current_head) \/ Dead(dtor.next_block))
    /\ dtor' = [dtor EXCEPT !.current_head = dtor.next_block,
                            !.next_block = blocks[dtor.next_block].next_block]
    /\ UNCHANGED <<mq, thr, kind, capacity, BVars, tail, stop, prod, cons, out, pushed, popped, SeqVars>>

\* destructor line 81-87, one iteration: head = next_block;
\* current_head->next_block.store(nullptr); delete current_head; current_head = head;
\* then the loop's next_block = head->next_block.load(acquire)
UQ_dtor_L83 ==
    /\ kind = "U"
    /\ dtor.pc = "L81"
    /\ dtor.next_block # NULL
    /\ head' = dtor.next_block
    /\ blocks' = [blocks EXCEPT ![dtor.current_head].next_block = NULL]
    /\ delcnt' = [delcnt EXCEPT ![dtor.current_head] = @ + 1]
    /\ uaf' = (uaf \/ Dead(dtor.current_head) \/ Dead(dtor.next_block))
    /\ dtor' = [dtor EXCEPT !.current_head = dtor.next_block,
                            !.next_block = blocks[dtor.next_block].next_block]
    /\ UNCHANGED <<mq, thr, kind, capacity, BVars, tail, stop, prod, cons, out, pushed, popped, SeqVars>>

\* destructor line 81 (loop exit) and 90: delete head
UQ_dtor_L90 ==
    /\ kind = "U"
    /\ dtor.pc = "L81"
    /\ dtor.next_block = NULL
    /\ delcnt' = [delcnt EXCEPT ![head] = @ + 1]
    /\ dtor' = [dtor EXCEPT !.pc = "done"]
    /\ UNCHANGED <<mq, thr, kind, capacity, BVars, blocks, head, tail, stop, uaf, prod, cons, out,
                   pushed, popped, SeqVars>>

InitU == UnboundedLockFreeQueue /\ InitCommon

NextU ==
    \/ UQ_push_L96
    \/ UQ_push_L98
    \/ UQ_push_L103
    \/ UQ_push_L104
    \/ UQ_push_L108
    \/ UQ_push_L110
    \/ UQ_push_L117
    \/ UQ_push_L118
    \/ UQ_pop_L128
    \/ UQ_pop_L130
    \/ UQ_pop_L133
    \/ UQ_pop_L135
    \/ UQ_pop_L139
    \/ UQ_pop_L140
    \/ UQ_pop_L144
    \/ UQ_pop_L149
    \/ UQ_pop_L150
    \/ UQ_dtor_L77
    \/ UQ_dtor_L79
    \/ UQ_dtor_L83
    \/ UQ_dtor_L90

SpecU == InitU /\ [][NextU]_vars

\* SpecU with a destructor that, once called, keeps running: it takes no
\* lock and waits for nothing
SpecUFair == SpecU /\ WF_vars(UQ_dtor_L79 \/ UQ_dtor_L83 \/ UQ_dtor_L90)

(***************************************************************************)
(* Single-threaded use: one action per call of push, pop or the            *)
(* destructor.                                                             *)
(***************************************************************************)

\* the queue under test holds no element: reader == writer and, for the
\* unbounded queue, the head block has no next_block
IsEmpty ==
    IF kind = "B"
      THEN reader = writer
      ELSE /\ blocks[head].reader = blocks[head].writer
           /\ blocks[head].next_block = NULL

\* history record of a call that has just returned.  rt = 1 marks a push made
\* on an empty, not stopped queue; rt = 2 marks the pop that immediately
\* follows such a push and keeps that push's argument in arg.
Completed(op, arg, ret, refret, refout) ==
    [op |-> op,
     arg |-> IF op = "pop" /\ last.rt = 1 THEN last.arg ELSE arg,
     ret |-> ret, refret |-> refret, refout |-> refout,
     rt |-> IF op = "push" /\ IsEmpty /\ ~stop THEN 1
            ELSE IF op = "pop" /\ last.rt = 1 THEN 2 ELSE 0]

\* the reference FIFO bounded to length size: its answer to push(elem)
RefPush(elem) == [ret |-> Len(ref) < size,
                  q |-> IF Len(ref) < size THEN Append(ref, elem) ELSE ref]
\* its answer to pop
RefPop == [ret |-> ref # <<>>,
           q |-> IF ref # <<>> THEN Tail(ref) ELSE ref,
           out |-> IF ref # <<>> THEN Head(ref) ELSE NoVal]

\* faulty variant of LockFreeQueue::push: the full test omits the wrap of
\* wr_pos + 1, so a ring whose writer is at the last slot is never found full
LFQ_push_result_NoWrapTest(elem) ==
    LET wr_pos == writer
        next_pos == (wr_pos + 1) % capacity
    IN IF wr_pos + 1 = reader
         THEN [ret |-> FALSE, data |-> data, writer |-> writer]
         ELSE [ret |-> TRUE, data |-> [data EXCEPT ![wr_pos] = elem],
               writer |-> next_pos]

\* faulty variant of LockFreeQueue::push: the slot is written before the
\* full test
LFQ_push_result_WriteFirst(elem) ==
    LET wr_pos == writer
        next_pos == (wr_pos + 1) % capacity
    IN IF next_pos = reader
         THEN [ret |-> FALSE, data |-> [data EXCEPT ![wr_pos] = elem],
               writer |-> writer]
         ELSE [ret |-> TRUE, data |-> [data EXCEPT ![wr_pos] = elem],
               writer |-> next_pos]

\* LockFreeQueue::push, lines 21-33, as one step: the result and the slots,
\* writer index it leaves
LFQ_push_result(elem) ==
    LET wr_pos == writer
        next_pos == (wr_pos + 1) % capacity
    IN IF next_pos = reader
         THEN [ret |-> FALSE, data |-> data, writer |-> writer]
         ELSE [ret |-> TRUE, data |-> [data EXCEPT ![wr_pos] = elem],
               writer |-> next_pos]

\* LockFreeQueue::push called by the single thread with any value
LFQ_push(elem) ==
    /\ kind = "B"
    /\ LET r == LFQ_push_result(elem)
       IN /\ data' = r.data
          /\ writer' = r.writer
          /\ last' = Completed("push", elem, r.ret, RefPush(elem).ret, NoVal)
          /\ streak' = IF r.ret /\ streak < capacity THEN streak + 1 ELSE streak
    /\ ref' = RefPush(elem).q
    /\ UNCHANGED <<mq, thr, kind, capacity, reader, UVars, prod, cons, out, pushed, popped, phase>>

\* faulty variant of LockFreeQueue::pop: the slot is copied to the output
\* argument before the empty test
LFQ_pop_result_ReadFirst ==
    LET rd_pos == reader
    IN IF rd_pos = writer
         THEN [ret |-> FALSE, out |-> data[rd_pos], reader |-> reader]
         ELSE [ret |-> TRUE, out |-> data[rd_pos],
               reader |-> (rd_pos + 1) % capacity]

\* LockFreeQueue::pop, lines 35-48, as one step: the result, the output
\* argument and the reader index it leaves
LFQ_pop_result ==
    LET rd_pos == reader
    IN IF rd_pos = writer
         THEN [ret |-> FALSE, out |-> out, reader |-> reader]
         ELSE [ret |-> TRUE, out |-> data[rd_pos],
               reader |-> (rd_pos + 1) % capacity]

\* LockFreeQueue::pop called by the single thread
LFQ_pop ==
    /\ kind = "B"
    /\ LET r == LFQ_pop_result
       IN /\ out' = r.out
          /\ reader' = r.reader
          /\ last' = Completed("pop", NoVal, r.ret, RefPop.ret, RefPop.out)
    /\ ref' = RefPop.q
    /\ streak' = 0
    /\ UNCHANGED <<mq, thr, kind, capacity, writer, data, UVars, prod, cons, pushed, popped, phase>>

\* faulty variant of UnboundedLockFreeQueue::push: the element is stored at
\* next_pos, the slot after the one the writer index publishes
UQ_push_result_WrongSlot(elem) ==
    IF stop
      THEN [ret |-> FALSE, blocks |-> blocks, delcnt |-> delcnt, tail |-> tail]
      ELSE LET current_tail == tail
               wr_pos == blocks[current_tail].writer
               next_pos == (wr_pos + 1) % capacity
           IN IF next_pos = blocks[current_tail].reader
                THEN LET next_block == Len(blocks) + 1
                     IN [ret |-> TRUE,
                         blocks |-> Append(
                             [blocks EXCEPT ![current_tail].next_block = next_block],
                             [MemoryBlock EXCEPT !.data[(0 + 1) % capacity] = elem,
                                                 !.writer = (0 + 1) % capacity]),
                         delcnt |-> Append(delcnt, 0),
                         tail |-> next_block]
                ELSE [ret |-> TRUE,
                      blocks |-> [blocks EXCEPT ![current_tail].data[next_pos] = elem,
                                                ![current_tail].writer = next_pos],
                      delcnt |-> delcnt,
                      tail |-> tail]

\* faulty variant of UnboundedLockFreeQueue::push: the full test omits the
\* wrap of wr_pos + 1, so a tail block whose writer is at the last slot is
\* not found full and no block is allocated
UQ_push_result_NoWrapTest(elem) ==
    IF stop
      THEN [ret |-> FALSE, blocks |-> blocks, delcnt |-> delcnt, tail |-> tail]
      ELSE LET current_tail == tail
               wr_pos == blocks[current_tail].writer
               next_pos == (wr_pos + 1) % capacity
           IN IF wr_pos + 1 = blocks[current_tail].reader
                THEN LET next_block == Len(blocks) + 1
                     IN [ret |-> TRUE,
                         blocks |-> Append(
                             [blocks EXCEPT ![current_tail].next_block = next_block],
                             [MemoryBlock EXCEPT !.data[0] = elem,
                                                 !.writer = (0 + 1) % capacity]),
                         delcnt |-> Append(delcnt, 0),
                         tail |-> next_block]
                ELSE [ret |-> TRUE,
                      blocks |-> [blocks EXCEPT ![current_tail].data[wr_pos] = elem,
                                                ![current_tail].writer = next_pos],
                      delcnt |-> delcnt,
                      tail |-> tail]

\* UnboundedLockFreeQueue::push, lines 94-124, as one step: the result and
\* the heap, tail it leaves
UQ_push_result(elem) ==
    IF stop
      THEN [ret |-> FALSE, blocks |-> blocks, delcnt |-> delcnt, tail |-> tail]
      ELSE LET current_tail == tail
               wr_pos == blocks[current_tail].writer
               next_pos == (wr_pos + 1) % capacity
           IN IF next_pos = blocks[current_tail].reader
                THEN LET next_block == Len(blocks) + 1
                     IN [ret |-> TRUE,
                         blocks |-> Append(
                             [blocks EXCEPT ![current_tail].next_block = next_block],
                             [MemoryBlock EXCEPT !.data[0] = elem,
                                                 !.writer = (0 + 1) % capacity]),
                         delcnt |-> Append(delcnt, 0),
                         tail |-> next_block]
                ELSE [ret |-> TRUE,
                      blocks |-> [blocks EXCEPT ![current_tail].data[wr_pos] = elem,
                                                ![current_tail].writer = next_pos],
                      delcnt |-> delcnt,
                      tail |-> tail]

\* UnboundedLockFreeQueue::push called by the single thread with the next value
UQ_push ==
    /\ kind = "U"
    /\ stop \/ Len(pushed) < MaxPush
    /\ LET elem == Len(pushed) + 1
           r == UQ_push_result(elem)
       IN /\ blocks' = r.blocks
          /\ delcnt' = r.delcnt
          /\ tail' = r.tail
          /\ pushed' = IF r.ret THEN Append(pushed, elem) ELSE pushed
          /\ last' = Completed("push", elem, r.ret, FALSE, NoVal)
    /\ phase' = IF phase = "push" THEN "push" ELSE "mixed"
    /\ UNCHANGED <<mq, thr, kind, capacity, BVars, head, stop, dtor, uaf, prod, cons, out, popped,
                   ref, streak>>

\* faulty variant of UnboundedLockFreeQueue::pop: the drained block is not
\* deleted when head advances
UQ_pop_result_NoDelete ==
    IF stop
      THEN [ret |-> FALSE, out |-> out, blocks |-> blocks, delcnt |-> delcnt,
            head |-> head]
      ELSE LET current_head == head
               rd_pos == blocks[current_head].reader
           IN IF rd_pos = blocks[current_head].writer
                THEN LET next_block == blocks[current_head].next_block
                     IN IF next_block = NULL
                          THEN [ret |-> FALSE, out |-> out, blocks |-> blocks,
                                delcnt |-> delcnt, head |-> head]
                          ELSE IF 0 = blocks[next_block].writer
                                 THEN [ret |-> FALSE, out |-> out, blocks |-> blocks,
                                       delcnt |-> delcnt,
                                       head |-> next_block]
                                 ELSE [ret |-> TRUE,
                                       out |-> blocks[next_block].data[0],
                                       blocks |-> [blocks EXCEPT ![next_block].reader =
                                                       (0 + 1) % capacity],
                                       delcnt |-> delcnt,
                                       head |-> next_block]
                ELSE [ret |-> TRUE,
                      out |-> blocks[current_head].data[rd_pos],
                      blocks |-> [blocks EXCEPT ![current_head].reader =
                                      (rd_pos + 1) % capacity],
                      delcnt |-> delcnt,
                      head |-> head]

\* UnboundedLockFreeQueue::pop, lines 126-156, as one step: the result, the
\* output argument and the heap, head it leaves
UQ_pop_result ==
    IF stop
      THEN [ret |-> FALSE, out |-> out, blocks |-> blocks, delcnt |-> delcnt,
            head |-> head]
      ELSE LET current_head == head
               rd_pos == blocks[current_head].reader
           IN IF rd_pos = blocks[current_head].writer
                THEN LET next_block == blocks[current_head].next_block
                     IN IF next_block = NULL
                          THEN [ret |-> FALSE, out |-> out, blocks |-> blocks,
                                delcnt |-> delcnt, head |-> head]
                          ELSE IF 0 = blocks[next_block].writer
                                 THEN [ret |-> FALSE, out |-> out, blocks |-> blocks,
                                       delcnt |-> [delcnt EXCEPT ![current_head] = @ + 1],
                                       head |-> next_block]
                                 ELSE [ret |-> TRUE,
                                       out |-> blocks[next_block].data[0],
                                       blocks |-> [blocks EXCEPT ![next_block].reader =
                                                       (0 + 1) % capacity],
                                       delcnt |-> [delcnt EXCEPT ![current_head] = @ + 1],
                                       head |-> next_block]
                ELSE [ret |-> TRUE,
                      out |-> blocks[current_head].data[rd_pos],
                      blocks |-> [blocks EXCEPT ![current_head].reader =
                                      (rd_pos + 1) % capacity],
                      delcnt |-> delcnt,
                      head |-> head]

\* UnboundedLockFreeQueue::pop called by the single thread
UQ_pop ==
    /\ kind = "U"
    /\ LET r == UQ_pop_result
       IN /\ blocks' = r.blocks
          /\ delcnt' = r.delcnt
          /\ head' = r.head
          /\ out' = r.out
          /\ popped' = IF r.ret THEN Append(popped, r.out) ELSE popped
          /\ last' = Completed("pop", NoVal, r.ret, FALSE, NoVal)
    /\ phase' = IF phase = "push" THEN "pop" ELSE phase
    /\ UNCHANGED <<mq, thr, kind, capacity, BVars, tail, stop, dtor, uaf, prod, cons, pushed,
                   ref, streak>>

\* the blocks the destructor's loop visits from block b on, in order
RECURSIVE Chain(_)
Chain(b) == IF blocks[b].next_block = NULL
              THEN <<b>>
              ELSE <<b>> \o Chain(blocks[b].next_block)

\* ~UnboundedLockFreeQueue, lines 75-92, as one step
UQ_dtor ==
    /\ kind = "U"
    /\ dtor.pc = "none"
    /\ stop' = TRUE
    /\ LET c == Chain(head)
           visited == {c[i] : i \in 1..Len(c)}
       IN /\ head' = c[Len(c)]
          /\ blocks' = [b \in DOMAIN blocks |->
                          IF b \in visited THEN [blocks[b] EXCEPT !.next_block = NULL]
                                           ELSE blocks[b]]
          /\ delcnt' = [b \in DOMAIN delcnt |->
                          IF b \in visited THEN delcnt[b] + 1 ELSE delcnt[b]]
    /\ dtor' = [dtor EXCEPT !.pc = "done"]
    /\ last' = Completed("dtor", NoVal, FALSE, FALSE, NoVal)
    /\ UNCHANGED <<mq, thr, kind, capacity, BVars, tail, uaf, prod, cons, out, pushed, popped,
                   ref, streak, phase>>

InitSeq == (LockFreeQueue \/ UnboundedLockFreeQueue) /\ InitCommon

NextSeq ==
    \/ \E elem \in Vals : LFQ_push(elem)
    \/ LFQ_pop
    \/ UQ_push
    \/ UQ_pop
    \/ UQ_dtor

SpecSeq == InitSeq /\ [][NextSeq]_vars

(***************************************************************************)
(* MutexedQueue called by several threads, one action per statement, next  *)
(* to a LockFreeQueue (reader, writer, data) that is fed every call at the *)
(* moment the call returns.                                                *)
(***************************************************************************)

Threads == 1..MaxThreads

\* a thread that is not inside a call
ThrIdle == [pc |-> "idle", elem |-> NoVal, next_pos |-> 0, out |-> NoVal]

\* MutexedQueue() : reader(0), writer(0), capacity(size + 1), and a
\* LockFreeQueue of the same size
MutexedQueue ==
    /\ kind = "M"
    /\ capacity \in {sz + 1 : sz \in 1..MaxSize}
    /\ mq = [reader |-> 0, writer |-> 0, data |-> [i \in 0..size |-> NoVal],
             lock |-> 0, issued |-> 0]
    /\ thr = [t \in Threads |-> ThrIdle]
    /\ reader = 0
    /\ writer = 0
    /\ data = [i \in 0..size |-> NoVal]
    /\ blocks = <<>>
    /\ delcnt = <<>>
    /\ head = NULL
    /\ tail = NULL
    /\ stop = FALSE
    /\ prod = ProdIdle(FALSE)
    /\ cons = ConsIdle(FALSE)
    /\ dtor = DtorNone
    /\ out = NoVal
    /\ uaf = FALSE
    /\ pushed = <<>>
    /\ popped = <<>>
    /\ ref = <<>>
    /\ streak = 0
    /\ phase = "push"
    /\ last = NoCall

\* faulty variant of the lock_guard constructor: the mutex is taken without
\* waiting for its holder to release it
lock_guard_NoWait(t) ==
    [mq EXCEPT !.lock = t]

\* std::lock_guard<std::mutex> lg(lock), lines 175 and 190: the value of mq
\* once thread t has acquired the mutex; the caller waits until lock is free
lock_guard(t) ==
    [mq EXCEPT !.lock = IF mq.lock = 0 THEN t ELSE mq.lock]

\* thread t calls push with a value no other call has used
MQ_push_call(t) ==
    /\ kind = "M"
    /\ thr[t].pc = "idle"
    /\ mq.issued < MaxPush
    /\ mq' = [mq EXCEPT !.issued = mq.issued + 1]
    /\ thr' = [thr EXCEPT ![t] = [ThrIdle EXCEPT !.pc = "L175", !.elem = mq.issued + 1]]
    /\ UNCHANGED <<kind, capacity, BVars, UVars, prod, cons, out, pushed, popped, SeqVars>>

\* push line 175: lock_guard lg(lock)
MQ_push_L175(t) ==
    /\ kind = "M"
    /\ thr[t].pc = "L175"
    /\ lock_guard(t).lock = t
    /\ mq' = lock_guard(t)
    /\ thr' = [thr EXCEPT ![t].pc = "L176"]
    /\ UNCHANGED <<kind, capacity, BVars, UVars, prod, cons, out, pushed, popped, SeqVars>>

\* push line 176: next_pos = (writer + 1) % capacity
MQ_push_L176(t) ==
    /\ kind = "M"
    /\ thr[t].pc = "L176"
    /\ thr' = [thr EXCEPT ![t].pc = "L178", ![t].next_pos = (mq.writer + 1) % capacity]
    /\ UNCHANGED <<mq, kind, capacity, BVars, UVars, prod, cons, out, pushed, popped, SeqVars>>

\* push line 178-179: if (next_pos == reader) return false; the return
\* releases the mutex.  The LockFreeQueue is given the same call.
MQ_push_L178(t) ==
    /\ kind = "M"
    /\ thr[t].pc = "L178"
    /\ IF thr[t].next_pos = mq.reader
         THEN LET r == LFQ_push_result(thr[t].elem)
              IN /\ mq' = [mq EXCEPT !.lock = 0]
                 /\ thr' = [thr EXCEPT ![t] = ThrIdle]
                 /\ data' = r.data
                 /\ writer' = r.writer
                 /\ pushed' = IF r.ret THEN Append(pushed, thr[t].elem) ELSE pushed
                 /\ last' = [op |-> "push", arg |-> thr[t].elem, ret |-> FALSE,
                             refret |-> r.ret, refout |-> NoVal, rt |-> 0]
         ELSE /\ thr' = [thr EXCEPT ![t].pc = "L181"]
              /\ UNCHANGED <<mq, data, writer, pushed, last>>
    /\ UNCHANGED <<kind, capacity, reader, UVars, prod, cons, out, popped, ref, streak, phase>>

\* push line 181: data[writer] = elem
MQ_push_L181(t) ==
    /\ kind = "M"
    /\ thr[t].pc = "L181"
    /\ mq' = [mq EXCEPT !.data[mq.writer] = thr[t].elem]
    /\ thr' = [thr EXCEPT ![t].pc = "L182"]
    /\ UNCHANGED <<kind, capacity, BVars, UVars, prod, cons, out, pushed, popped, SeqVars>>

\* push line 182: writer = next_pos
MQ_push_L182(t) ==
    /\ kind = "M"
    /\ thr[t].pc = "L182"
    /\ mq' = [mq EXCEPT !.writer = thr[t].next_pos]
    /\ thr' = [thr EXCEPT ![t].pc = "L184"]
    /\ UNCHANGED <<kind, capacity, BVars, UVars, prod, cons, out, pushed, popped, SeqVars>>

\* push line 184: return true; the return releases the mutex.  The
\* LockFreeQueue is given the same call.
MQ_push_L184(t) ==
    /\ kind = "M"
    /\ thr[t].pc = "L184"
    /\ LET r == LFQ_push_result(thr[t].elem)
       IN /\ mq' = [mq EXCEPT !.lock = 0]
          /\ thr' = [thr EXCEPT ![t] = ThrIdle]
          /\ data' = r.data
          /\ writer' = r.writer
          /\ pushed' = Append(pushed, thr[t].elem)
          /\ last' = [op |-> "push", arg |-> thr[t].elem, ret |-> TRUE,
                      refret |-> r.ret, refout |-> NoVal, rt |-> 0]
    /\ UNCHANGED <<kind, capacity, reader, UVars, prod, cons, out, popped, ref, streak, phase>>

\* thread t calls pop; the argument is a variable of the caller that holds
\* no value yet
MQ_pop_call(t) ==
    /\ kind = "M"
    /\ thr[t].pc = "idle"
    /\ thr' = [thr EXCEPT ![t] = [ThrIdle EXCEPT !.pc = "L190"]]
    /\ UNCHANGED <<mq, kind, capacity, BVars, UVars, prod, cons, out, pushed, popped, SeqVars>>

\* pop line 190: lock_guard lg(lock)
MQ_pop_L190(t) ==
    /\ kind = "M"
    /\ thr[t].pc = "L190"
    /\ lock_guard(t).lock = t
    /\ mq' = lock_guard(t)
    /\ thr' = [thr EXCEPT ![t].pc = "L192"]
    /\ UNCHANGED <<kind, capacity, BVars, UVars, prod, cons, out, pushed, popped, SeqVars>>

\* pop line 192-193: if (reader == writer) return false; the return
\* releases the mutex.  The LockFreeQueue is given the same call.
MQ_pop_L192(t) ==
    /\ kind = "M"
    /\ thr[t].pc = "L192"
    /\ IF mq.reader = mq.writer
         THEN LET r == LFQ_pop_result
              IN /\ mq' = [mq EXCEPT !.lock = 0]
                 /\ thr' = [thr EXCEPT ![t] = ThrIdle]
                 /\ reader' = r.reader
                 /\ popped' = IF r.ret THEN Append(popped, r.out) ELSE popped
                 /\ last' = [op |-> "pop", arg |-> thr[t].out, ret |-> FALSE,
                             refret |-> r.ret, refout |-> r.out, rt |-> 0]
         ELSE /\ thr' = [thr EXCEPT ![t].pc = "L195"]
              /\ UNCHANGED <<mq, reader, popped, last>>
    /\ UNCHANGED <<kind, capacity, writer, data, UVars, prod, cons, out, pushed, ref, streak, phase>>

\* pop line 195: elem = data[reader]
MQ_pop_L195(t) ==
    /\ kind = "M"
    /\ thr[t].pc = "L195"
    /\ thr' = [thr EXCEPT ![t].pc = "L196", ![t].out = mq.data[mq.reader]]
    /\ UNCHANGED <<mq, kind, capacity, BVars, UVars, prod, cons, out, pushed, popped, SeqVars>>

\* pop line 196: next_pos = (reader + 1) % capacity
MQ_pop_L196(t) ==
    /\ kind = "M"
    /\ thr[t].pc = "L196"
    /\ thr' = [thr EXCEPT ![t].pc = "L197", ![t].next_pos = (mq.reader + 1) % capacity]
    /\ UNCHANGED <<mq, kind, capacity, BVars, UVars, prod, cons, out, pushed, popped, SeqVars>>

\* pop line 197: reader = next_pos
MQ_pop_L197(t) ==
    /\ kind = "M"
    /\ thr[t].pc = "L197"
    /\ mq' = [mq EXCEPT !.reader = thr[t].next_pos]
    /\ thr' = [thr EXCEPT ![t].pc = "L199"]
    /\ UNCHANGED <<kind, capacity, BVars, UVars, prod, cons, out, pushed, popped, SeqVars>>

\* pop line 199: return true; the return releases the mutex.  The
\* LockFreeQueue is given the same call; the value delivered to the caller
\* of MutexedQueue::pop is recorded in popped.
MQ_pop_L199(t) ==
    /\ kind = "M"
    /\ thr[t].pc = "L199"
    /\ LET r == LFQ_pop_result
       IN /\ mq' = [mq EXCEPT !.lock = 0]
          /\ thr' = [thr EXCEPT ![t] = ThrIdle]
          /\ reader' = r.reader
          /\ popped' = Append(popped, thr[t].out)
          /\ last' = [op |-> "pop", arg |-> thr[t].out, ret |-> TRUE,
                      refret |-> r.ret, refout |-> r.out, rt |-> 0]
    /\ UNCHANGED <<kind, capacity, writer, data, UVars, prod, cons, out, pushed, ref, streak, phase>>

InitM == MutexedQueue

NextM ==
    \/ \E t \in Threads : MQ_push_call(t)
    \/ \E t \in Threads : MQ_push_L175(t)
    \/ \E t \in Threads : MQ_push_L176(t)
    \/ \E t \in Threads : MQ_push_L178(t)
    \/ \E t \in Threads : MQ_push_L181(t)
    \/ \E t \in Threads : MQ_push_L182(t)
    \/ \E t \in Threads : MQ_push_L184(t)
    \/ \E t \in Threads : MQ_pop_call(t)
    \/ \E t \in Threads : MQ_pop_L190(t)
    \/ \E t \in Threads : MQ_pop_L192(t)
    \/ \E t \in Threads : MQ_pop_L195(t)
    \/ \E t \in Threads : MQ_pop_L196(t)
    \/ \E t \in Threads : MQ_pop_L197(t)
    \/ \E t \in Threads : MQ_pop_L199(t)

SpecM == InitM /\ [][NextM]_vars

(***************************************************************************)
(* Properties                                                              *)
(***************************************************************************)

\* the first n positive integers in increasing order
UpTo(n) == [i \in 1..n |-> i]

\* number of elements between the two indices of a ring
Count(r, w) == (w - r + capacity) % capacity

\* the elements a LockFreeQueue holds, oldest first
Contents == [i \in 1..Count(reader, writer) |-> data[(reader + i - 1) % capacity]]

\* ceil(k / c)
CeilDiv(k, c) == (k + c - 1) \div c

\* C1 (SpecU): with the producer pushing 1..K and the consumer retrying pop,
\* the values returned by successful pops are, at every moment, 1, 2, ..., n
\* for some n: a prefix of 1..K with nothing skipped, repeated or reordered.
C1_StressOrder ==
    kind = "U" => popped = UpTo(Len(popped))

\* C2 (SpecB): the values returned by successful pops are at every moment a
\* prefix of the values whose push returned true, in the same order, and the
\* accepted values not yet popped are exactly the ring's slots from reader to
\* writer, in order (none lost, duplicated or reordered).
C2_BoundedFifo ==
    kind = "B" =>
        /\ Len(popped) <= Len(pushed)
        /\ popped = SubSeq(pushed, 1, Len(popped))
        /\ Contents = SubSeq(pushed, Len(popped) + 1, Len(pushed))

\* C2 witness: the indices have wrapped and both threads are inside a call,
\* the producer about to write a slot and the consumer about to read one.
C2_Witness ==
    /\ kind = "B"
    /\ Len(pushed) > capacity
    /\ prod.pc = "L29"
    /\ cons.pc = "L42"

\* C3 (SpecU): no block is deleted twice, no thread has accessed a field of a
\* deleted block, and whenever a thread is about to dereference tail,
\* current_tail, head or current_head, that block has not been deleted.
C3_NoUseAfterDelete ==
    kind = "U" =>
        /\ \A b \in DOMAIN delcnt : delcnt[b] <= 1
        /\ ~uaf
        /\ prod.pc = "L98" => ~Dead(tail)
        /\ prod.pc \in {"L103", "L108", "L117", "L118"} => ~Dead(prod.current_tail)
        /\ cons.pc = "L130" => ~Dead(head)
        /\ cons.pc \in {"L133", "L135", "L144", "L149", "L150"} => ~Dead(cons.current_head)

\* C3 witness: pop has deleted a block while the producer is inside push and
\* the consumer goes on to read a slot of the block it advanced to.
C3_Witness ==
    /\ kind = "U"
    /\ ~stop
    /\ \E b \in DOMAIN delcnt : delcnt[b] = 1
    /\ prod.pc = "L117"
    /\ cons.pc = "L149"
    /\ cons.current_head > 1

\* C4 (SpecSeq): every call on a LockFreeQueue returns what the reference FIFO
\* bounded to length size returns, a successful pop yields the reference's
\* oldest element, and the queue holds exactly the reference's elements.
C4_RefinesBoundedFifo ==
    kind = "B" =>
        /\ last.op \in {"push", "pop"} => last.ret = last.refret
        /\ (last.op = "pop" /\ last.ret) => out = last.refout
        /\ Contents = ref

\* C4 witness: after the indices wrapped, a full queue has rejected a push.
C4_Witness ==
    /\ kind = "B"
    /\ last.op = "push"
    /\ ~last.ret
    /\ Len(ref) = size
    /\ writer < reader

\* C5 (SpecSeq): the push that follows size successful pushes with no pop in
\* between returns false, and a push that returns false leaves reader, writer
\* and every slot of data as they were.
C5_RejectedPushNoEffect ==
    [][(kind = "B" /\ last'.op = "push") =>
          /\ streak = size => ~last'.ret
          /\ ~last'.ret => UNCHANGED <<reader, writer, data>>]_vars

\* C5 witness: size pushes in a row succeeded and the next one was rejected.
C5_Witness ==
    /\ kind = "B"
    /\ streak = size
    /\ last.op = "push"
    /\ ~last.ret

\* C6 (SpecB): reader and writer are in 0..size; the number of accepted and
\* not yet popped elements is (writer - reader) mod (size + 1) and lies in
\* 0..size; it is 0 exactly when writer = reader and size exactly when
\* (writer + 1) mod (size + 1) = reader.
C6_IndexInvariant ==
    kind = "B" =>
        LET n == Len(pushed) - Len(popped)
        IN /\ reader \in 0..size
           /\ writer \in 0..size
           /\ n = Count(reader, writer)
           /\ n \in 0..size
           /\ (n = 0) <=> (writer = reader)
           /\ (n = size) <=> ((writer + 1) % capacity = reader)

\* C6 witness: the queue is full with the writer index wrapped behind the reader.
C6_Witness ==
    /\ kind = "B"
    /\ Len(pushed) - Len(popped) = size
    /\ writer < reader
    /\ cons.pc = "L39"

\* C7 (SpecSeq): on an unbounded queue that received K pushes and then only
\* pops: every push returned true; ceil(K / size) blocks were allocated in
\* total (one for K = 0); the pops return the values in push order and none
\* fails before all K values are delivered; exactly the blocks the consumer
\* advanced past are deleted, each once; and once K pops are done head and
\* tail are the one block that is left.
C7_CrossBlock ==
    (kind = "U" /\ ~stop /\ phase # "mixed") =>
        LET K == Len(pushed)
        IN /\ last.op = "push" => last.ret
           /\ Len(blocks) = IF K = 0 THEN 1 ELSE CeilDiv(K, size)
           /\ popped = SubSeq(pushed, 1, Len(popped))
           /\ Len(popped) <= K
           /\ (last.op = "pop" /\ ~last.ret) => Len(popped) = K
           /\ \A b \in DOMAIN delcnt : delcnt[b] = IF b < head THEN 1 ELSE 0
           /\ Len(popped) = K => /\ head = tail
                                 /\ head = Len(blocks)

\* C7 witness: size = 2, K = 5: three blocks used, two deleted, one left.
C7_Witness ==
    /\ kind = "U"
    /\ size = 2
    /\ phase = "pop"
    /\ pushed = UpTo(5)
    /\ popped = UpTo(5)
    /\ Len(blocks) = 3
    /\ delcnt = <<1, 1, 0>>
    /\ head = 3
    /\ tail = 3

\* C8 (SpecU): stop never goes back to false, and while stop is true a push
\* or pop that begins returns false at once and changes neither the heap,
\* head, tail, the output argument nor the record of delivered values.
C8_StopFinal ==
    [][/\ stop => stop'
       /\ (stop /\ prod.pc = "idle" /\ prod' # prod) =>
              /\ prod' = ProdIdle(FALSE)
              /\ UNCHANGED <<blocks, delcnt, head, tail, out, pushed, popped, cons>>
       /\ (stop /\ cons.pc = "idle" /\ cons' # cons) =>
              /\ cons' = ConsIdle(FALSE)
              /\ UNCHANGED <<blocks, delcnt, head, tail, out, pushed, popped, prod>>]_vars

\* C8 witness: stop is set while the chain still holds undelivered values in
\* more than one block, and a push made since then returned false.
C8_Witness ==
    /\ kind = "U"
    /\ stop
    /\ dtor.pc = "L79"
    /\ Len(popped) < Len(pushed)
    /\ head # tail
    /\ prod = ProdIdle(FALSE)
    /\ cons = ConsIdle(FALSE)

\* C9 (SpecSeq): a push made on an empty, not stopped queue returns true, and
\* the pop that immediately follows returns true, yields the pushed value and
\* leaves the queue empty.
C9_RoundTrip ==
    /\ last.rt = 1 => last.ret
    /\ last.rt = 2 => /\ last.ret
                      /\ out = last.arg
                      /\ IsEmpty

\* C9 witness: the round trip was made on a queue emptied after its indices
\* wrapped (LockFreeQueue) or after a block crossing (UnboundedLockFreeQueue).
C9_Witness ==
    /\ last.rt = 2
    /\ last.ret
    /\ \/ kind = "B" /\ \A i \in 0..size : data[i] # NoVal
       \/ kind = "U" /\ head > 1

\* C10 (SpecSeq): a pop that finds the queue empty (in particular the first
\* call on a fresh queue) returns false and leaves the output argument, the
\* indices, head, tail and every block as they were.
C10_EmptyPopNoEffect ==
    [][(last'.op = "pop" /\ IsEmpty) =>
          /\ ~last'.ret
          /\ UNCHANGED <<out, reader, writer, data, blocks, delcnt, head, tail>>]_vars

\* C10 witness: a pop failed on a queue that was used and drained before, and
\* the output argument still holds the value of the last successful pop.
C10_Witness ==
    /\ last.op = "pop"
    /\ ~last.ret
    /\ IsEmpty
    /\ ~stop
    /\ out # NoVal
    /\ \/ kind = "B" /\ reader > 0
       \/ kind = "U" /\ head > 1

\* the program locations at which push dereferences its local current_tail
ProdDeref == {"L103", "L108", "L117", "L118"}

\* C11 as stated (SpecU): when pop is about to delete a block, the member
\* tail already refers to a later block of the chain.
C11_TailAheadAtDelete ==
    (kind = "U" /\ cons.pc = "L140") => tail > cons.current_head

\* C11 amended (SpecU): when pop is about to delete a block, push has already
\* stored that block's next_block link and will not dereference the block
\* again; the member tail refers to a later block, or still to the block
\* being deleted while push stands between the link store (line 108) and
\* the store of tail (line 110) with the later block in current_tail.
C11_LinkedBeforeDelete ==
    (kind = "U" /\ cons.pc = "L140") =>
        /\ cons.next_block # NULL
        /\ blocks[cons.current_head].next_block = cons.next_block
        /\ prod.pc \in ProdDeref => prod.current_tail # cons.current_head
        /\ prod.pc = "L98" => tail # cons.current_head
        /\ \/ tail > cons.current_head
           \/ /\ tail = cons.current_head
              /\ prod.pc = "L110"
              /\ prod.current_tail = cons.next_block

\* C11 witness: pop is about to delete the block tail still refers to.
C11_Witness ==
    /\ kind = "U"
    /\ cons.pc = "L140"
    /\ tail = cons.current_head
    /\ prod.pc = "L110"

\* the blocks met by following next_block from block b for at most n links
RECURSIVE ChainN(_, _)
ChainN(b, n) == IF n = 0 \/ blocks[b].next_block = NULL
                  THEN <<b>>
                  ELSE <<b>> \o ChainN(blocks[b].next_block, n - 1)

\* following next_block from head visits only live blocks, visits none
\* twice, ends at a block without successor and meets block t
ChainTo(t) ==
    LET c == ChainN(head, Len(blocks))
    IN /\ \A i \in 1..Len(c) : ~Dead(c[i])
       /\ \A i, j \in 1..Len(c) : c[i] = c[j] => i = j
       /\ blocks[c[Len(c)]].next_block = NULL
       /\ \E i \in 1..Len(c) : c[i] = t

\* a next_block link changes only from absent to the block push has just
\* allocated, which no other block links to
LinkOnce ==
    \A b \in DOMAIN blocks :
        blocks'[b].next_block # blocks[b].next_block =>
            /\ blocks[b].next_block = NULL
            /\ prod.pc = "L108"
            /\ blocks'[b].next_block = prod.next_block
            /\ prod.next_block = Len(blocks)
            /\ \A c \in DOMAIN blocks : blocks[c].next_block # prod.next_block

\* the block push is writing to: the member tail, or the new block while the
\* store of tail (line 110) is still to come
ProducerTail == IF prod.pc = "L110" THEN prod.current_tail ELSE tail

\* C12 as stated (SpecU): while push and pop run, the chain from head is
\* live, acyclic and reaches tail, and each link is written once, from
\* absent to a freshly allocated block.
C12_ChainReachesTail ==
    /\ []((kind = "U" /\ dtor.pc = "none") => ChainTo(tail))
    /\ [][(kind = "U" /\ dtor.pc = "none") => LinkOnce]_vars

\* C12 amended (SpecU): the same, with the chain reaching the block push is
\* writing to: tail, or, between the link store (line 108) and the store of
\* tail (line 110), the newly linked block.
C12_ChainReachesProducerTail ==
    /\ []((kind = "U" /\ dtor.pc = "none") => ChainTo(ProducerTail))
    /\ [][(kind = "U" /\ dtor.pc = "none") => LinkOnce]_vars

\* C12 witness: head is the newly linked block while tail still refers to
\* the block pop has deleted.
C12_Witness ==
    /\ kind = "U"
    /\ dtor.pc = "none"
    /\ prod.pc = "L110"
    /\ Dead(tail)
    /\ head = prod.current_tail
    /\ head > 2

\* C13 as stated (SpecU): when a pop returns false with stop false, every
\* value whose push had returned true before that pop was called has been
\* returned by a successful pop.
C13_FalseMeansDrained ==
    [][(kind = "U" /\ ~stop /\ cons.pc # "idle" /\ cons'.pc = "idle" /\ ~cons'.ret) =>
          \A v \in 1..cons.seen : \E i \in 1..Len(popped) : popped[i] = v]_vars

\* position of a program location of pop in the order of its source lines
PopRank(pc) ==
    CASE pc = "idle" -> 0
      [] pc = "L130" -> 1
      [] pc = "L133" -> 2
      [] pc = "L135" -> 3
      [] pc = "L139" -> 4
      [] pc = "L140" -> 5
      [] pc = "L144" -> 6
      [] pc = "L149" -> 7
      [] pc = "L150" -> 8

\* the sum of the first n delete counts of d
RECURSIVE Deletions(_, _)
Deletions(d, n) == IF n = 0 THEN 0 ELSE d[n] + Deletions(d, n - 1)

\* no value stored in block b has been returned by a pop
FreshBlock(b) ==
    \A i \in 0..size :
        blocks[b].data[i] # NoVal =>
            \A j \in 1..Len(popped) : popped[j] # blocks[b].data[i]

\* C14 (SpecU): pop never goes back to an earlier line, so one call passes
\* line 139 and line 140 at most once: head changes only at line 139, to the
\* successor of the old head, and pop deletes only at line 140, one block,
\* the old head.  When the new head block has writer = 0 at line 144 the
\* call returns false with the output argument unchanged, head at the new
\* block and the old block deleted.  A later pop that reads a block no value
\* was yet delivered from reads its slot 0, which holds the first (oldest)
\* value stored in the block.
C14_NoRetry ==
    /\ [][(kind = "U" /\ dtor.pc = "none" /\ cons' # cons) =>
            /\ cons'.pc = "idle" \/ PopRank(cons'.pc) > PopRank(cons.pc)
            /\ head' # head => /\ cons.pc = "L139"
                               /\ head' = blocks[head].next_block
                               /\ head = cons.current_head
            /\ delcnt' # delcnt => /\ cons.pc = "L140"
                                   /\ Deletions(delcnt', Len(delcnt')) = Deletions(delcnt, Len(delcnt)) + 1
                                   /\ delcnt'[cons.current_head] = 1
                                   /\ head = cons.next_block
            /\ (cons.pc = "L144" /\ blocks[cons.current_head].writer = 0) =>
                   /\ cons' = ConsIdle(FALSE)
                   /\ out' = out
                   /\ head' = cons.current_head
                   /\ head' = head
                   /\ \A b \in 1..(head - 1) : Dead(b)]_vars
    /\ []((kind = "U" /\ cons.pc = "L150" /\ FreshBlock(cons.current_head)) =>
            /\ cons.rd_pos = 0
            /\ out = blocks[cons.current_head].data[0]
            /\ \A i \in 0..size : blocks[cons.current_head].data[i] # NoVal =>
                                      out <= blocks[cons.current_head].data[i])

\* C14 witness: head was advanced by an earlier pop that delivered nothing
\* (the pop before this one returned false and this one did not advance),
\* and the pop in progress has read slot 0 of that block.
C14_Witness ==
    /\ kind = "U"
    /\ cons.pc = "L150"
    /\ cons.next_block = NULL
    /\ ~cons.ret
    /\ head > 1
    /\ FreshBlock(head)

\* the tail block is full: (writer + 1) mod (size + 1) equals its reader
TailFull == (blocks[tail].writer + 1) % capacity = blocks[tail].reader

\* C15 (SpecSeq): a push on a not stopped unbounded queue returns true.  If
\* the tail block is full it allocates one block, links it after the old
\* tail, makes it tail, stores the element in its slot 0 and publishes
\* writer = 1 there, leaving the old block's slots and indices alone;
\* otherwise it allocates nothing, stores the element in the tail block at
\* its writer index and advances that index by one modulo size + 1.
C15_PushGrowsWhenFull ==
    [][(kind = "U" /\ ~stop /\ last'.op = "push") =>
          /\ last'.ret
          /\ TailFull =>
                /\ Len(blocks') = Len(blocks) + 1
                /\ tail' = Len(blocks')
                /\ blocks'[tail] = [blocks[tail] EXCEPT !.next_block = tail']
                /\ blocks'[tail'].data[0] = last'.arg
                /\ blocks'[tail'].writer = 1
                /\ blocks'[tail'].reader = 0
                /\ blocks'[tail'].next_block = NULL
          /\ ~TailFull =>
                /\ Len(blocks') = Len(blocks)
                /\ tail' = tail
                /\ blocks'[tail].data[blocks[tail].writer] = last'.arg
                /\ blocks'[tail].writer = (blocks[tail].writer + 1) % capacity
                /\ blocks'[tail].next_block = NULL
          /\ \A b \in DOMAIN blocks : b # tail => blocks'[b] = blocks[b]]_vars

\* C15 witness: a push found a partly drained tail block full after its
\* indices wrapped and opened a third block.
C15_Witness ==
    /\ kind = "U"
    /\ ~stop
    /\ last.op = "push"
    /\ last.ret
    /\ tail = 3
    /\ Len(blocks) = 3
    /\ blocks[2].reader > 0
    /\ blocks[2].writer < blocks[2].reader
    /\ blocks[3].writer = 1

\* C16 as stated (SpecU): when the tail block is full and the allocation of
\* line 104 fails, push returns false and leaves the heap, head, tail and
\* the record of accepted values unchanged.
C16_AllocFailureReturnsFalse ==
    [][(kind = "U" /\ prod.pc = "L104" /\ prod'.pc = "idle") =>
          /\ prod' = ProdIdle(FALSE)
          /\ UNCHANGED <<blocks, delcnt, head, tail, pushed>>]_vars

\* C17 (SpecUFair): the destructor, called when no push or pop is in
\* progress, sets stop before anything else; each of its deletes applies to
\* the live block head refers to; no block is ever deleted twice or accessed
\* after its deletion; once called it reaches its end, and then every block
\* ever allocated has been deleted exactly once.
C17_DestructorFreesAll ==
    /\ [](kind = "U" =>
            /\ dtor.pc # "none" => stop
            /\ \A b \in DOMAIN delcnt : delcnt[b] <= 1
            /\ ~uaf
            /\ dtor.pc = "done" => \A b \in DOMAIN delcnt : delcnt[b] = 1)
    /\ [][(kind = "U" /\ dtor.pc # "none" /\ delcnt' # delcnt) =>
            /\ ~Dead(head)
            /\ delcnt' = [delcnt EXCEPT ![head] = 1]]_vars
    /\ (dtor.pc = "L79") ~> (dtor.pc = "done")

\* C17 witness: the destructor has finished on a chain of three blocks that
\* still held undelivered values, after pop had deleted earlier blocks.
C17_Witness ==
    /\ kind = "U"
    /\ dtor.pc = "done"
    /\ Len(blocks) >= 4
    /\ head = Len(blocks)
    /\ Len(popped) < Len(pushed)
    /\ \A b \in DOMAIN delcnt : delcnt[b] = 1

\* the slots of the ring that hold accepted, not yet popped elements
LiveSlots == {(reader + i - 1) % capacity : i \in 1..Count(reader, writer)}

\* C18 (SpecB): push is never about to write the slot pop is about to read.
\* When pop is about to read data[rd_pos], that slot is the oldest live slot:
\* the writer index store publishing it has happened and it holds the oldest
\* accepted, undelivered value.  When push is about to write data[wr_pos],
\* that slot is not live: it was never written, or the reader index store
\* releasing it has happened.
C18_NoSlotRace ==
    kind = "B" =>
        /\ ~(prod.pc = "L29" /\ cons.pc = "L42" /\ prod.wr_pos = cons.rd_pos)
        /\ cons.pc = "L42" =>
              /\ cons.rd_pos = reader
              /\ cons.rd_pos \in LiveSlots
              /\ Len(pushed) > Len(popped)
              /\ data[cons.rd_pos] = pushed[Len(popped) + 1]
        /\ prod.pc = "L29" =>
              /\ prod.wr_pos = writer
              /\ prod.wr_pos \notin LiveSlots
              /\ \/ data[prod.wr_pos] = NoVal
                 \/ \E j \in 1..Len(popped) : popped[j] = data[prod.wr_pos]

\* C18 witness: push is about to overwrite a released slot while pop is
\* about to read the slot just before it.
C18_Witness ==
    /\ kind = "B"
    /\ prod.pc = "L29"
    /\ cons.pc = "L42"
    /\ data[prod.wr_pos] # NoVal
    /\ (cons.rd_pos + 1) % capacity = prod.wr_pos

\* position of a program location of LockFreeQueue::push resp. pop in the
\* order of the source lines
RankB(pc) ==
    CASE pc = "idle" -> 0
      [] pc \in {"L26", "L39"} -> 1
      [] pc \in {"L29", "L42"} -> 2
      [] pc \in {"L30", "L45"} -> 3

\* C19 (SpecBFair): a call of push or pop only moves forward through its
\* at most four steps and each of its steps can be taken whatever the other
\* thread does; with both threads scheduled again and again, a value the
\* producer keeps offering is eventually accepted and every accepted value
\* is eventually returned by a pop.
C19_NonBlockingProgress ==
    /\ [][kind = "B" =>
            /\ prod' # prod => (prod'.pc = "idle" \/ RankB(prod'.pc) > RankB(prod.pc))
            /\ cons' # cons => (cons'.pc = "idle" \/ RankB(cons'.pc) > RankB(cons.pc))]_vars
    /\ []((kind = "B" /\ prod.pc # "idle") => ENABLED ProducerB)
    /\ []((kind = "B" /\ cons.pc # "idle") => ENABLED ConsumerB)
    /\ \A k \in 1..MaxPush :
          /\ (prod.pc # "idle" /\ prod.elem = k) ~> (Len(pushed) >= k)
          /\ (Len(pushed) >= k) ~> (Len(popped) >= k /\ popped[k] = k)

\* C19 witness: every offered value was accepted and delivered through a ring
\* smaller than the number of values, and both calls have returned true.
C19_Witness ==
    /\ kind = "B"
    /\ capacity <= MaxPush
    /\ Len(popped) = MaxPush
    /\ popped = pushed
    /\ prod = ProdIdle(TRUE)
    /\ cons = ConsIdle(TRUE)

\* the program locations of MutexedQueue at which the calling thread holds
\* the mutex
Locked == {"L176", "L178", "L181", "L182", "L184", "L192", "L195", "L196", "L197", "L199"}

\* the elements stored in the MutexedQueue, oldest first
MQContents ==
    [i \in 1..Count(mq.reader, mq.writer) |-> mq.data[(mq.reader + i - 1) % capacity]]

\* C20 (SpecM): every call of MutexedQueue returns the boolean and, for pop,
\* the value that a LockFreeQueue of the same size returns when it is given
\* the calls in the order in which they release the mutex; whenever the
\* mutex is free the two queues have equal reader, writer and slots, and the
\* values delivered followed by the values stored are exactly the values
\* accepted, in order; at most one thread is inside a call's body, and
\* the members change only by a step of the thread that holds the mutex.
C20_MutexedEqualsLockFree ==
    /\ [](kind = "M" =>
            /\ last.ret = last.refret
            /\ last.op = "pop" => last.arg = last.refout
            /\ \A t \in Threads : thr[t].pc \in Locked <=> mq.lock = t
            /\ mq.lock = 0 =>
                  /\ mq.reader = reader
                  /\ mq.writer = writer
                  /\ mq.data = data
                  /\ popped \o MQContents = pushed)
    /\ [][kind = "M" =>
            /\ <<mq'.reader, mq'.writer, mq'.data>> # <<mq.reader, mq.writer, mq.data>> =>
                  /\ mq.lock # 0
                  /\ mq'.lock = mq.lock
                  /\ thr'[mq.lock] # thr[mq.lock]
                  /\ \A t \in Threads \ {mq.lock} : thr'[t] = thr[t]
            /\ <<reader', writer', data'>> # <<reader, writer, data>> =>
                  mq.lock # 0 /\ mq'.lock = 0]_vars

\* C20 witness: while another thread waits for the mutex, a pop returns true
\* with a value that went through a wrapped ring, and the LockFreeQueue gives
\* the same answer.
C20_Witness ==
    /\ kind = "M"
    /\ last.op = "pop" /\ last.ret /\ last.refret
    /\ last.arg = last.refout
    /\ Len(popped) > size
    /\ mq.lock = 0
    /\ \E t \in Threads : thr[t].pc \in {"L175", "L190"}

====
